---------------------------- MODULE Spec2Model ----------------------------
(***************************************************************************)
(* Model of src/ride_sharing.cpp: the geohash codec, the location trie,    *)
(* the driver registry, the pending ride requests and the matching engine  *)
(* of RideSharingSystem.                                                   *)
(*                                                                         *)
(* Numbers.  A coordinate is a pair of grid indices: latitude              *)
(* -90 + lat * 180 / GridSize degrees, longitude -180 + lng * 360 /        *)
(* GridSize degrees.  Every such value and every midpoint the bisection of *)
(* Geohash::encode forms on it is exact in a double, so the integer        *)
(* bisection below is the computation of the code.  Distances are in       *)
(* micrometres (10^-9 km).  The clock counts ticks of 1/TicksPerSecond s.  *)
(***************************************************************************)
EXTENDS Integers, Sequences, FiniteSets, TLC

VARIABLES now, drivers, driverGeohashes, locationTrie, pendingRequests,
          nextDriverId, nextPassengerId, outcome, geohashCall

vars == <<now, drivers, driverGeohashes, locationTrie, pendingRequests,
          nextDriverId, nextPassengerId, outcome, geohashCall>>

(***************************************************************************)
(* Bounds of the model.                                                    *)
(***************************************************************************)
MaxDrivers == 2

MaxRequests == 2

TicksPerSecond == 2

(***************************************************************************)
(* Program constants.                                                      *)
(***************************************************************************)
GEOHASH_PRECISION == 6

REQUEST_TIMEOUT == 300

PrefixLen == 3

\* 0.001 km, the tie window of DriverMatch::operator>, in micrometres.
TieWindow == 1000000

BASE32 ==
  << "0", "1", "2", "3", "4", "5", "6", "7", "8", "9", "b", "c", "d", "e", "f", "g",
     "h", "j", "k", "m", "n", "p", "q", "r", "s", "t", "u", "v", "w", "x", "y", "z" >>

GridSize == 2^26

Abs(x) == IF x < 0 THEN -x ELSE x

Min(S) == CHOOSE x \in S : \A y \in S : x <= y

Range(s) == {s[i] : i \in 1..Len(s)}

EmptyMap == [x \in {} |-> 0]

(***************************************************************************)
(* Location.  The sample coordinates lie on one meridian, around the       *)
(* boundary between two 3-character cells: CoordE is 0.298 m south of the  *)
(* boundary, in the cell "s01pbp"; CoordA on it, CoordB 0.895 m and CoordC  *)
(* 1.491 m north of it, all three in the cell "s03000".                    *)
(***************************************************************************)
BoundaryLat == 2^25 + 2^19

MeridianLng == 2^25 + 2^18

CoordE == [lat |-> BoundaryLat - 1, lng |-> MeridianLng]

CoordA == [lat |-> BoundaryLat, lng |-> MeridianLng]

CoordB == [lat |-> BoundaryLat + 3, lng |-> MeridianLng]

CoordC == [lat |-> BoundaryLat + 5, lng |-> MeridianLng]

DriverCoords == {CoordE, CoordA, CoordB, CoordC}

PassengerCoords == {CoordA}

\* Micrometres of great-circle distance per grid step of latitude:
\* 6371 km * pi / GridSize.
MicrometresPerLatStep == 298248

\* Location::distanceTo for two points of one meridian: with dLon = 0 the
\* Haversine term a is sin^2(dLat/2) and R * c is R * |dLat|.
DistanceTo(from, to) ==
  CASE from.lng = to.lng -> Abs(to.lat - from.lat) * MicrometresPerLatStep

(***************************************************************************)
(* Geohash.                                                                *)
(***************************************************************************)
\* A mask that counts the bits of a group from the least significant end.
ShlFromLow(k) == 2^(4 - k)

\* 1 << k
Shl(k) == 2^k

\* One pass of the inner loop of Geohash::encode; s is the loop's state.
EncodeBit(latitude, longitude, s) ==
  LET lonMid == (s.lonMin + s.lonMax) \div 2
      latMid == (s.latMin + s.latMax) \div 2
      mask == Shl(4 - (s.bit % 5))
      s1 == IF s.bit % 2 = 0
              THEN IF longitude >= lonMid
                     THEN [s EXCEPT !.ch = @ + mask, !.lonMin = lonMid]
                     ELSE [s EXCEPT !.lonMax = lonMid]
              ELSE IF latitude >= latMid
                     THEN [s EXCEPT !.ch = @ + mask, !.latMin = latMid]
                     ELSE [s EXCEPT !.latMax = latMid]
      s2 == [s1 EXCEPT !.bit = @ + 1]
  IN IF s2.bit % 5 = 0
       THEN [s2 EXCEPT !.geohash = Append(@, BASE32[s2.ch + 1]), !.ch = 0]
       ELSE s2

\* Loops cut short: no symbol for precision 1 and, for any other precision,
\* one symbol made of the first longitude bit alone.
EncodeLoopShort(latitude, longitude, s, precision) ==
  IF s.bit >= 5 * (precision - 1)
    THEN s.geohash
    ELSE LET lonMid == (s.lonMin + s.lonMax) \div 2
             ch == IF longitude >= lonMid THEN 16 ELSE 0
         IN Append(s.geohash, BASE32[ch + 1])

\* The two nested loops of Geohash::encode: 5 bits for each of precision symbols.
RECURSIVE EncodeLoop(_, _, _, _)
EncodeLoop(latitude, longitude, s, precision) ==
  IF s.bit >= 5 * precision
    THEN s.geohash
    ELSE EncodeLoop(latitude, longitude, EncodeBit(latitude, longitude, s), precision)

Encode(latitude, longitude, precision) ==
  EncodeLoop(latitude, longitude,
             [latMin |-> 0, latMax |-> GridSize, lonMin |-> 0, lonMax |-> GridSize,
              geohash |-> <<>>, bit |-> 0, ch |-> 0],
             precision)

\* Geohash::encode at the default precision, tabulated over the sample
\* coordinates.
DefaultGeohash ==
  [c \in {CoordE, CoordA, CoordB, CoordC} |->
     Encode(c.lat, c.lng, GEOHASH_PRECISION)]

\* BASE32.find(c): the index of the symbol from 0, or -1 (npos) for a
\* character outside the alphabet.
Find(c) ==
  IF \E i \in 1..Len(BASE32) : BASE32[i] = c
    THEN (CHOOSE i \in 1..Len(BASE32) : BASE32[i] = c) - 1
    ELSE -1

\* Geohash::decodeRange
DecodeRange(c, bit, min, max) ==
  LET index == Find(c)
      mid == (min + max) \div 2
  IN IF index = -1
       THEN <<min, max>>
       ELSE IF (index \div Shl(4 - bit)) % 2 # 0
         THEN <<mid, max>>
         ELSE <<min, mid>>

\* One pass of the inner loop of Geohash::decode; s is the loop's state and
\* s.step counts the passes made: the character is geohash[s.step / 5], the
\* bit s.step % 5, and isEven holds on the even passes.
DecodeBit(geohash, s) ==
  LET c == geohash[s.step \div 5 + 1]
      i == s.step % 5
  IN IF s.step % 2 = 0
       THEN LET range == DecodeRange(c, i, s.lonMin, s.lonMax)
            IN [s EXCEPT !.lonMin = range[1], !.lonMax = range[2], !.step = @ + 1]
       ELSE LET range == DecodeRange(c, i, s.latMin, s.latMax)
            IN [s EXCEPT !.latMin = range[1], !.latMax = range[2], !.step = @ + 1]

\* The two nested loops of Geohash::decode.
RECURSIVE DecodeLoop(_, _)
DecodeLoop(geohash, s) ==
  IF s.step >= 5 * Len(geohash)
    THEN s
    ELSE DecodeLoop(geohash, DecodeBit(geohash, s))

\* A decode that returns the pair {longitude, latitude}.
DecodeSwapped(geohash) ==
  LET s == DecodeLoop(geohash, [latMin |-> 0, latMax |-> GridSize,
                                lonMin |-> 0, lonMax |-> GridSize, step |-> 0])
  IN [lat |-> (s.lonMin + s.lonMax) \div 2, lng |-> (s.latMin + s.latMax) \div 2]

\* Geohash::decode: the pair {latitude, longitude}.
Decode(geohash) ==
  LET s == DecodeLoop(geohash, [latMin |-> 0, latMax |-> GridSize,
                                lonMin |-> 0, lonMax |-> GridSize, step |-> 0])
  IN [lat |-> (s.latMin + s.latMax) \div 2, lng |-> (s.lonMin + s.lonMax) \div 2]

\* Geohash::getNeighbors
GetNeighbors(geohash) ==
  IF Len(geohash) <= 1
    THEN <<geohash>>
    ELSE LET prefix == SubSeq(geohash, 1, Len(geohash) - 1)
         IN [i \in 1..Len(BASE32) |-> Append(prefix, BASE32[i])]

\* string::substr(0, n)
Substr(s, n) == SubSeq(s, 1, IF n < Len(s) THEN n ELSE Len(s))

(***************************************************************************)
(* TrieNode.  The trie is a function from the paths of its nodes (the      *)
(* strings spelled from the root) to their driverIds vectors.              *)
(***************************************************************************)
EmptyTrie == [p \in {<<>>} |-> <<>>]

Prefixes(geohash) == {SubSeq(geohash, 1, k) : k \in 0..Len(geohash)}

\* An insertDriver that makes the nodes of the path and stores no id.
InsertPathOnly(trie, geohash, driverId) ==
  [p \in DOMAIN trie \cup Prefixes(geohash) |->
     IF p \in DOMAIN trie THEN trie[p] ELSE <<>>]

\* An insertDriver that pushes the id without looking for it.
InsertAlways(trie, geohash, driverId) ==
  [p \in DOMAIN trie \cup Prefixes(geohash) |->
     IF p = geohash
       THEN Append(IF p \in DOMAIN trie THEN trie[p] ELSE <<>>, driverId)
       ELSE IF p \in DOMAIN trie THEN trie[p] ELSE <<>>]

\* TrieNode::insertDriver
InsertDriver(trie, geohash, driverId) ==
  LET made == [p \in DOMAIN trie \cup Prefixes(geohash) |->
                 IF p \in DOMAIN trie THEN trie[p] ELSE <<>>]
  IN IF driverId \in Range(made[geohash])
       THEN made
       ELSE [made EXCEPT ![geohash] = Append(@, driverId)]

\* vector::erase of the first element equal to x
EraseFirst(v, x) ==
  LET i == Min({k \in 1..Len(v) : v[k] = x})
  IN SubSeq(v, 1, i - 1) \o SubSeq(v, i + 1, Len(v))

\* A removeDriver that finds nothing to erase.
RemoveDriverKeeps(trie, geohash, driverId) == trie

\* TrieNode::removeDriver
RemoveDriver(trie, geohash, driverId) ==
  IF geohash \in DOMAIN trie /\ driverId \in Range(trie[geohash])
    THEN [trie EXCEPT ![geohash] = EraseFirst(@, driverId)]
    ELSE trie

Children(trie, node) ==
  {p \in DOMAIN trie : Len(p) = Len(node) + 1 /\ SubSeq(p, 1, Len(node)) = node}

\* The nodes of the trie that have no child.
Leaves(trie) == {p \in DOMAIN trie : Children(trie, p) = {}}

\* The orders in which a traversal can meet the leaves below the given
\* prefixes; the iteration order of an unordered_map is unspecified.
LeafOrders(trie, prefixes) ==
  LET L == {l \in Leaves(trie) :
              \E p \in prefixes : Len(p) <= Len(l) /\ SubSeq(l, 1, Len(p)) = p}
  IN {o \in [1..Cardinality(L) -> L] : \A i, j \in DOMAIN o : i # j => o[i] # o[j]}

\* The position of the first leaf below node in the leaf order.
Rank(node, order) ==
  Min({i \in DOMAIN order :
         Len(order[i]) >= Len(node) /\ SubSeq(order[i], 1, Len(node)) = node})

RECURSIVE GetAllDrivers(_, _, _)
RECURSIVE CollectChildren(_, _, _)
\* The loop over children of getAllDrivers and findDriversWithPrefix.
CollectChildren(trie, todo, order) ==
  IF todo = {}
    THEN <<>>
    ELSE LET c == CHOOSE x \in todo : \A y \in todo : Rank(x, order) <= Rank(y, order)
         IN GetAllDrivers(trie, c, order) \o CollectChildren(trie, todo \ {c}, order)

\* TrieNode::getAllDrivers
GetAllDrivers(trie, node, order) ==
  trie[node] \o CollectChildren(trie, Children(trie, node), order)

\* TrieNode::findDriversWithPrefix
FindDriversWithPrefix(trie, prefix, order) ==
  IF prefix \in DOMAIN trie
    THEN trie[prefix] \o CollectChildren(trie, Children(trie, prefix), order)
    ELSE <<>>

(***************************************************************************)
(* DriverMatch and the priority_queue of matchRideRequest.                 *)
(***************************************************************************)
\* A comparison by distance alone, without the tie window.
GreaterByDistance(a, b) == a.distance > b.distance

\* DriverMatch::operator>
Greater(a, b) ==
  IF Abs(a.distance - b.distance) < TieWindow
    THEN a.lastActive > b.lastActive
    ELSE a.distance > b.distance

\* A push that leaves the new value at the last position.
StayLast(c, hole, value) == [c EXCEPT ![hole] = value]

\* std::push_heap under greater<DriverMatch>: the new value climbs from the
\* last position while its parent is greater than it.
RECURSIVE SiftUp(_, _, _)
SiftUp(c, hole, value) ==
  IF hole > 1 /\ Greater(c[hole \div 2], value)
    THEN SiftUp([c EXCEPT ![hole] = c[hole \div 2]], hole \div 2, value)
    ELSE [c EXCEPT ![hole] = value]

\* priority_queue::push
Push(heap, value) == SiftUp(Append(heap, value), Len(heap) + 1, value)

\* The element at the last position of the heap.
Bottom(heap) == heap[Len(heap)]

\* priority_queue::top
Top(heap) == heap[1]

\* The pushes of a loop that does not test isAvailable().
CandidatesOfAll(ids, passenger, drv) ==
  LET kept == SelectSeq(ids, LAMBDA driverId : driverId \in DOMAIN drv)
  IN [i \in 1..Len(kept) |->
        [driverId |-> kept[i],
         distance |-> DistanceTo(passenger.location, drv[kept[i]].location),
         lastActive |-> drv[kept[i]].lastActive]]

\* The pushes of the inner loop of matchRideRequest for the ids one query
\* returned: a DriverMatch for every id that is a known, available driver.
Candidates(ids, passenger, drv) ==
  LET kept == SelectSeq(ids, LAMBDA driverId :
                               driverId \in DOMAIN drv /\ drv[driverId].available)
  IN [i \in 1..Len(kept) |->
        [driverId |-> kept[i],
         distance |-> DistanceTo(passenger.location, drv[kept[i]].location),
         lastActive |-> drv[kept[i]].lastActive]]

\* The cells of a search that also takes the cell across the southern edge of
\* the passenger's cell.
NearbyGeohashesAdjacent(passengerGeohash) ==
  Append(Append(GetNeighbors(passengerGeohash), passengerGeohash), DefaultGeohash[CoordE])

\* The cells matchRideRequest queries: the neighbours, then the own cell.
NearbyGeohashes(passengerGeohash) ==
  Append(GetNeighbors(passengerGeohash), passengerGeohash)

\* The prefixes matchRideRequest hands to findDriversWithPrefix.
QueryPrefixes(passenger) ==
  LET cells == NearbyGeohashes(DefaultGeohash[passenger.location])
  IN {Substr(cells[i], PrefixLen) : i \in DOMAIN cells}

\* The pushes of cells lo..hi of the outer loop of matchRideRequest, in order;
\* pushed[p] holds the pushes for the result of findDriversWithPrefix(p), which
\* no pass of the loop changes.
RECURSIVE Gathered(_, _, _, _)
Gathered(cells, lo, hi, pushed) ==
  IF lo > hi
    THEN <<>>
    ELSE IF lo = hi
      THEN pushed[Substr(cells[lo], PrefixLen)]
      ELSE LET mid == (lo + hi) \div 2
           IN Gathered(cells, lo, mid, pushed) \o Gathered(cells, mid + 1, hi, pushed)

\* The heap after pushing the values one after the other; the heap holds as
\* many elements as were pushed.
RECURSIVE PushAll(_, _)
PushAll(heap, values) ==
  IF Len(heap) >= Len(values)
    THEN heap
    ELSE PushAll(Push(heap, values[Len(heap) + 1]), values)

\* The results findDriversWithPrefix can give for the prefixes of one call of
\* matchRideRequest: found[p] is the result for the prefix p.
QueryResults(trie, passenger) ==
  {[p \in QueryPrefixes(passenger) |-> FindDriversWithPrefix(trie, p, order)] :
     order \in LeafOrders(trie, QueryPrefixes(passenger))}

\* The heap matchRideRequest has built when its loops end.
DriverHeap(passenger, drv, found) ==
  LET cells == NearbyGeohashes(DefaultGeohash[passenger.location])
      pushed == [p \in DOMAIN found |-> Candidates(found[p], passenger, drv)]
  IN PushAll(<<>>, Gathered(cells, 1, Len(cells), pushed))

\* A setAvailable that takes the time of every call as lastActive.
SetAvailableStamps(driver, status, clock) ==
  [driver EXCEPT !.available = status, !.lastActive = clock]

\* Driver::setAvailable
SetAvailable(driver, status, clock) ==
  [driver EXCEPT !.available = status,
                 !.lastActive = IF status THEN clock ELSE @]

\* An updateLocation that also marks the driver available.
UpdateLocationAndFree(driver, coord, clock) ==
  [driver EXCEPT !.location = coord, !.lastActive = clock, !.available = TRUE]

\* Driver::updateLocation
UpdateLocation(driver, coord, clock) ==
  [driver EXCEPT !.location = coord, !.lastActive = clock]

\* An isExpired that compares the whole seconds with a timeout taken in
\* milliseconds.
IsExpiredInMillis(passenger, clock) ==
  (clock - passenger.requestTime) \div TicksPerSecond > REQUEST_TIMEOUT * 1000

\* Passenger::isExpired: duration_cast<seconds> drops the fraction of a second.
IsExpired(passenger, clock) ==
  (clock - passenger.requestTime) \div TicksPerSecond > REQUEST_TIMEOUT

\* An erase that empties the map.
EraseAll(map, key) == [k \in {} |-> map[k]]

\* A map without one key: unordered_map::erase
Erase(map, key) == [k \in DOMAIN map \ {key} |-> map[k]]

\* A map with one key set: unordered_map::operator[] assignment
Put(map, key, value) == [k \in DOMAIN map \cup {key} |-> IF k = key THEN value ELSE map[k]]

\* An end of matchRideRequest that stamps the request anew when the heap is
\* empty.
CommitOrRestamp(passengerId, drv, pending, driverHeap, clock) ==
  IF driverHeap = <<>>
    THEN [result |-> "NoAvailableMatch", driverId |-> 0, drivers |-> drv,
          pending |-> [pending EXCEPT ![passengerId].requestTime = clock]]
    ELSE [result |-> "Matched", driverId |-> driverHeap[1].driverId,
          drivers |-> [drv EXCEPT ![driverHeap[1].driverId] =
                                    [@ EXCEPT !.available = FALSE]],
          pending |-> [k \in DOMAIN pending \ {passengerId} |-> pending[k]]]

\* The end of matchRideRequest, from the test of the heap on: what it reports
\* and the maps it leaves.
CommitMatch(passengerId, drv, pending, driverHeap, clock) ==
  IF driverHeap = <<>>
    THEN [result |-> "NoAvailableMatch", driverId |-> 0, drivers |-> drv, pending |-> pending]
    ELSE [result |-> "Matched", driverId |-> Top(driverHeap).driverId,
          drivers |-> [drv EXCEPT ![Top(driverHeap).driverId] = SetAvailable(@, FALSE, clock)],
          pending |-> Erase(pending, passengerId)]

\* RideSharingSystem::matchRideRequest on the given maps: what it reports and
\* the maps it leaves.
MatchRideRequest(passengerId, drv, pending, found, clock) ==
  IF passengerId \notin DOMAIN pending
    THEN [result |-> "NotFound", driverId |-> 0, drivers |-> drv, pending |-> pending]
    ELSE CommitMatch(passengerId, drv, pending,
                     DriverHeap(pending[passengerId], drv, found), clock)

(***************************************************************************)
(* RideSharingSystem: the state and the operations.                        *)
(***************************************************************************)
DriverIds == 1..MaxDrivers

PassengerIds == 1..MaxRequests

\* The readings of the clock the model takes: the start, one tick later, and
\* REQUEST_TIMEOUT + 1 seconds after the start.
ClockReadings ==
  {0, 1, (REQUEST_TIMEOUT + 1) * TicksPerSecond}

\* No call of a Geohash function is under observation.
NoCall == [latitude |-> 0, longitude |-> 0, precision |-> 0,
           geohash |-> <<>>, decoded |-> <<>>, neighbors |-> <<>>]

Init ==
  /\ now = 0
  /\ drivers = EmptyMap
  /\ driverGeohashes = EmptyMap
  /\ locationTrie = EmptyTrie
  /\ pendingRequests = EmptyMap
  /\ nextDriverId = 1
  /\ nextPassengerId = 1
  /\ outcome = [result |-> "ok", driverId |-> 0]
  /\ geohashCall = NoCall

\* The system clock advances.
Tick ==
  /\ \E t \in ClockReadings : t > now /\ now' = t
  /\ outcome' = [result |-> "ok", driverId |-> 0]
  /\ UNCHANGED <<drivers, driverGeohashes, locationTrie, pendingRequests,
                 nextDriverId, nextPassengerId, geohashCall>>

\* RideSharingSystem::addDriver
RegisterProvider(coord) ==
  /\ nextDriverId <= MaxDrivers
  /\ LET driverId == nextDriverId
         geohash == DefaultGeohash[coord]
     IN /\ nextDriverId' = nextDriverId + 1
        /\ drivers' = Put(drivers, driverId,
                          [location |-> coord, lastActive |-> now, available |-> TRUE])
        /\ driverGeohashes' = Put(driverGeohashes, driverId, geohash)
        /\ locationTrie' = InsertDriver(locationTrie, geohash, driverId)
        /\ outcome' = [result |-> "ok", driverId |-> 0]
  /\ UNCHANGED <<now, pendingRequests, nextPassengerId, geohashCall>>

\* RideSharingSystem::updateDriverLocation
RelocateProvider(driverId, coord) ==
  IF driverId \notin DOMAIN drivers
    THEN /\ outcome' = [result |-> "NotFound", driverId |-> 0]
         /\ UNCHANGED <<now, drivers, driverGeohashes, locationTrie, pendingRequests,
                        nextDriverId, nextPassengerId, geohashCall>>
    ELSE LET removed == IF driverId \in DOMAIN driverGeohashes
                          THEN RemoveDriver(locationTrie, driverGeohashes[driverId], driverId)
                          ELSE locationTrie
             geohash == DefaultGeohash[coord]
         IN /\ drivers' = [drivers EXCEPT ![driverId] = UpdateLocation(@, coord, now)]
            /\ driverGeohashes' = Put(driverGeohashes, driverId, geohash)
            /\ locationTrie' = InsertDriver(removed, geohash, driverId)
            /\ outcome' = [result |-> "ok", driverId |-> 0]
            /\ UNCHANGED <<now, pendingRequests, nextDriverId, nextPassengerId, geohashCall>>

\* A setDriverAvailability without the test for an unknown id: the lookup
\* makes an entry for it.
SetAvailabilityUnchecked(driverId, available) ==
  /\ drivers' = Put(drivers, driverId,
                    IF driverId \in DOMAIN drivers
                      THEN [drivers[driverId] EXCEPT
                              !.available = available,
                              !.lastActive = IF available THEN now ELSE @]
                      ELSE [location |-> CoordA, lastActive |-> now,
                            available |-> available])
  /\ outcome' = [result |-> "ok", driverId |-> 0]
  /\ UNCHANGED <<now, driverGeohashes, locationTrie, pendingRequests,
                 nextDriverId, nextPassengerId, geohashCall>>

\* RideSharingSystem::setDriverAvailability
SetProviderAvailability(driverId, available) ==
  IF driverId \notin DOMAIN drivers
    THEN /\ outcome' = [result |-> "NotFound", driverId |-> 0]
         /\ UNCHANGED <<now, drivers, driverGeohashes, locationTrie, pendingRequests,
                        nextDriverId, nextPassengerId, geohashCall>>
    ELSE /\ drivers' = [drivers EXCEPT ![driverId] = SetAvailable(@, available, now)]
         /\ outcome' = [result |-> "ok", driverId |-> 0]
         /\ UNCHANGED <<now, driverGeohashes, locationTrie, pendingRequests,
                        nextDriverId, nextPassengerId, geohashCall>>

\* The query results a call of matchRideRequest can meet.
MatchQueries(passengerId, pending) ==
  IF passengerId \in DOMAIN pending
    THEN QueryResults(locationTrie, pending[passengerId])
    ELSE {EmptyMap}

\* RideSharingSystem::matchRideRequest
AttemptMatch(passengerId) ==
  /\ UNCHANGED <<now, driverGeohashes, locationTrie, nextDriverId, nextPassengerId, geohashCall>>
  /\ \E found \in MatchQueries(passengerId, pendingRequests) :
       \E m \in {MatchRideRequest(passengerId, drivers, pendingRequests, found, now)} :
          /\ drivers' = m.drivers
          /\ pendingRequests' = m.pending
          /\ outcome' = [result |-> m.result, driverId |-> m.driverId]

\* A requestRide that stores the request and leaves the match to a later call.
SubmitWithoutMatch(coord) ==
  /\ nextPassengerId <= MaxRequests
  /\ nextPassengerId' = nextPassengerId + 1
  /\ pendingRequests' = Put(pendingRequests, nextPassengerId,
                            [location |-> coord, requestTime |-> now])
  /\ outcome' = [result |-> "NoAvailableMatch", driverId |-> 0]
  /\ UNCHANGED <<now, drivers, driverGeohashes, locationTrie, nextDriverId, geohashCall>>

\* RideSharingSystem::requestRide
SubmitRequest(coord) ==
  /\ nextPassengerId <= MaxRequests
  /\ \E stored \in {Put(pendingRequests, nextPassengerId,
                        [location |-> coord, requestTime |-> now])} :
       \E found \in MatchQueries(nextPassengerId, stored) :
         \E m \in {MatchRideRequest(nextPassengerId, drivers, stored, found, now)} :
            /\ nextPassengerId' = nextPassengerId + 1
            /\ drivers' = m.drivers
            /\ pendingRequests' = m.pending
            /\ outcome' = [result |-> m.result, driverId |-> m.driverId]
  /\ UNCHANGED <<now, driverGeohashes, locationTrie, nextDriverId, geohashCall>>

\* RideSharingSystem::processExpiredRequests
SweepExpired ==
  LET expiredIds == {id \in DOMAIN pendingRequests : IsExpired(pendingRequests[id], now)}
  IN /\ pendingRequests' = [id \in DOMAIN pendingRequests \ expiredIds |-> pendingRequests[id]]
     /\ outcome' = [result |-> "ok", driverId |-> 0]
     /\ UNCHANGED <<now, drivers, driverGeohashes, locationTrie, nextDriverId,
                    nextPassengerId, geohashCall>>

Next ==
  \/ Tick
  \/ \E coord \in DriverCoords : RegisterProvider(coord)
  \/ \E driverId \in DriverIds, coord \in DriverCoords : RelocateProvider(driverId, coord)
  \/ \E driverId \in DriverIds, available \in BOOLEAN :
       SetProviderAvailability(driverId, available)
  \/ \E coord \in PassengerCoords : SubmitRequest(coord)
  \/ \E passengerId \in PassengerIds : AttemptMatch(passengerId)
  \/ SweepExpired

Spec == Init /\ [][Next]_vars

(***************************************************************************)
(* The functions of Geohash called on their own: encode on a coordinate    *)
(* and a precision, then decode and getNeighbors on the string at hand     *)
(* (the empty string before encode has run).                               *)
(***************************************************************************)
MaxPrecision == 6

\* Latitudes from -90 to 90 degrees and longitudes from -180 to 180 degrees,
\* the ends included, as grid indices.
SampleLatitudes ==
  {0, 2^25 - 1, 2^25, BoundaryLat - 1, BoundaryLat + 5, GridSize - 1, GridSize}

SampleLongitudes == {0, 2^24 + 12345, 2^25, MeridianLng, GridSize}

\* The system as its constructor leaves it.
Constructed ==
  /\ now = 0
  /\ drivers = EmptyMap
  /\ driverGeohashes = EmptyMap
  /\ locationTrie = EmptyTrie
  /\ pendingRequests = EmptyMap
  /\ nextDriverId = 1
  /\ nextPassengerId = 1
  /\ outcome = [result |-> "ok", driverId |-> 0]

GeohashInit ==
  /\ Constructed
  /\ geohashCall \in
       {[NoCall EXCEPT !.latitude = lat, !.longitude = lng, !.precision = p] :
          lat \in SampleLatitudes, lng \in SampleLongitudes, p \in 1..MaxPrecision}

\* Geohash::encode(latitude, longitude, precision)
CallEncode ==
  /\ geohashCall.geohash = <<>>
  /\ geohashCall' = [geohashCall EXCEPT
                       !.geohash = Encode(geohashCall.latitude, geohashCall.longitude,
                                          geohashCall.precision)]
  /\ UNCHANGED <<now, drivers, driverGeohashes, locationTrie, pendingRequests,
                 nextDriverId, nextPassengerId, outcome>>

\* Geohash::decode(geohash); the result is kept as a sequence of one pair.
CallDecode ==
  /\ geohashCall' = [geohashCall EXCEPT !.decoded = <<Decode(geohashCall.geohash)>>]
  /\ UNCHANGED <<now, drivers, driverGeohashes, locationTrie, pendingRequests,
                 nextDriverId, nextPassengerId, outcome>>

\* Geohash::getNeighbors(geohash)
CallGetNeighbors ==
  /\ geohashCall' = [geohashCall EXCEPT !.neighbors = GetNeighbors(geohashCall.geohash)]
  /\ UNCHANGED <<now, drivers, driverGeohashes, locationTrie, pendingRequests,
                 nextDriverId, nextPassengerId, outcome>>

GeohashNext == CallEncode \/ CallDecode \/ CallGetNeighbors

GeohashSpec == GeohashInit /\ [][GeohashNext]_vars

(***************************************************************************)
(* The functions of TrieNode called on their own, on a trie that starts    *)
(* empty: any sequence of insertDriver and removeDriver with keys of       *)
(* several lengths, some a prefix of another, some siblings.               *)
(***************************************************************************)
TrieKeys == {<<"s">>, <<"s", "0">>, <<"s", "1">>, <<"t">>}

\* The prefixes findDriversWithPrefix is called with: the keys, the empty
\* string, and strings no key starts with.
TriePrefixes == TrieKeys \cup {<<>>, <<"s", "2">>, <<"s", "0", "0">>, <<"u">>}

\* TrieNode::insertDriver(geohash, driverId)
CallInsertDriver(geohash, driverId) ==
  /\ locationTrie' = InsertDriver(locationTrie, geohash, driverId)
  /\ UNCHANGED <<now, drivers, driverGeohashes, pendingRequests,
                 nextDriverId, nextPassengerId, outcome, geohashCall>>

\* TrieNode::removeDriver(geohash, driverId)
CallRemoveDriver(geohash, driverId) ==
  /\ locationTrie' = RemoveDriver(locationTrie, geohash, driverId)
  /\ UNCHANGED <<now, drivers, driverGeohashes, pendingRequests,
                 nextDriverId, nextPassengerId, outcome, geohashCall>>

TrieNext ==
  \/ \E geohash \in TrieKeys, driverId \in DriverIds : CallInsertDriver(geohash, driverId)
  \/ \E geohash \in TrieKeys, driverId \in DriverIds : CallRemoveDriver(geohash, driverId)

TrieSpec == Init /\ [][TrieNext]_vars

(***************************************************************************)
(* matchRideRequest with more candidates than two.  The system has taken   *)
(* one request at CoordA while it had no driver, which is pending, and     *)
(* has then registered MaxCandidates drivers; relocations have left the    *)
(* ids of a cell in any order in its node, and registrations, relocations  *)
(* and setDriverAvailability(id, true) have left every driver available    *)
(* with any reading of the clock as its lastActive.                        *)
(***************************************************************************)
MaxCandidates == 3

CandidateIds == 1..MaxCandidates

\* The trie after insertDriver of the ids in the given order, each at the
\* geohash of its location.
RECURSIVE InsertAll(_, _, _)
InsertAll(trie, order, location) ==
  IF order = <<>>
    THEN trie
    ELSE InsertAll(InsertDriver(trie, DefaultGeohash[location[Head(order)]], Head(order)),
                   Tail(order), location)

RankingInit ==
  /\ now = MaxCandidates - 1
  /\ \E location \in [CandidateIds -> DriverCoords],
        lastActive \in [CandidateIds -> 0..(MaxCandidates - 1)],
        order \in {o \in [CandidateIds -> CandidateIds] :
                     \A i, j \in CandidateIds : i # j => o[i] # o[j]} :
       /\ drivers = [id \in CandidateIds |->
                       [location |-> location[id], lastActive |-> lastActive[id],
                        available |-> TRUE]]
       /\ driverGeohashes = [id \in CandidateIds |-> DefaultGeohash[location[id]]]
       /\ locationTrie = InsertAll(EmptyTrie, order, location)
  /\ pendingRequests = Put(EmptyMap, 1, [location |-> CoordA, requestTime |-> 0])
  /\ nextDriverId = MaxCandidates + 1
  /\ nextPassengerId = 2
  /\ outcome = [result |-> "ok", driverId |-> 0]
  /\ geohashCall = NoCall

RankingNext == \E passengerId \in PassengerIds : AttemptMatch(passengerId)

RankingSpec == RankingInit /\ [][RankingNext]_vars

(***************************************************************************)
(* The system under the conditions of progress: the clock keeps advancing  *)
(* and processExpiredRequests keeps being called.  The clock of the model  *)
(* stops at Horizon, so requestRide is taken only while the clock can      *)
(* still advance by REQUEST_TIMEOUT + 1 seconds after it.                  *)
(***************************************************************************)
Horizon == 2 * (REQUEST_TIMEOUT + 1) * TicksPerSecond

LiveClockReadings == ClockReadings \cup {Horizon}

\* The system clock advances.
LiveTick ==
  /\ \E t \in LiveClockReadings : t > now /\ now' = t
  /\ outcome' = [result |-> "ok", driverId |-> 0]
  /\ UNCHANGED <<drivers, driverGeohashes, locationTrie, pendingRequests,
                 nextDriverId, nextPassengerId, geohashCall>>

\* RideSharingSystem::requestRide, called early enough.
LiveSubmit(coord) ==
  /\ now + (REQUEST_TIMEOUT + 1) * TicksPerSecond <= Horizon
  /\ SubmitRequest(coord)

LiveNext ==
  \/ LiveTick
  \/ \E coord \in DriverCoords : RegisterProvider(coord)
  \/ \E driverId \in DriverIds, coord \in DriverCoords : RelocateProvider(driverId, coord)
  \/ \E driverId \in DriverIds, available \in BOOLEAN :
       SetProviderAvailability(driverId, available)
  \/ \E coord \in PassengerCoords : LiveSubmit(coord)
  \/ \E passengerId \in PassengerIds : AttemptMatch(passengerId)
  \/ SweepExpired

LiveSpec ==
  Init /\ [][LiveNext]_vars /\ WF_vars(LiveTick) /\ WF_vars(SweepExpired)

(***************************************************************************)
(* Vocabulary of the properties.                                           *)
(***************************************************************************)
StartsWith(s, prefix) == Len(prefix) <= Len(s) /\ SubSeq(s, 1, Len(prefix)) = prefix

\* The nodes of the trie whose driverIds hold the id.
NodesHolding(trie, id) == {p \in DOMAIN trie : id \in Range(trie[p])}

\* The ids stored at or below the node of the prefix.
IndexedUnder(trie, prefix) ==
  UNION {Range(trie[p]) : p \in {q \in DOMAIN trie : StartsWith(q, prefix)}}

\* The available drivers indexed under a prefix matchRideRequest queries for
\* the passenger.
Eligible(passenger) ==
  {id \in DOMAIN drivers :
     /\ drivers[id].available
     /\ \E q \in QueryPrefixes(passenger) : id \in IndexedUnder(locationTrie, q)}

Dist(passenger, id) == DistanceTo(passenger.location, drivers[id].location)

\* The part of the state that is not the report of the last operation.
system == <<now, drivers, driverGeohashes, locationTrie, pendingRequests,
            nextDriverId, nextPassengerId>>

\* The step is a call of matchRideRequest that matched the pending request.
MatchedBy(passengerId) == outcome'.result = "Matched" /\ AttemptMatch(passengerId)

\* The request issued last is still pending: requestRide has not matched it,
\* so a report of a match is the report of a later call of matchRideRequest.
LastIssuedPending == nextPassengerId - 1 \in DOMAIN pendingRequests

\* Every pending request was stored before the present reading of the clock:
\* a report about a pending request is not the report of its requestRide.
PendingAreOlder ==
  \A r \in DOMAIN pendingRequests : pendingRequests[r].requestTime < now

\* Two distances the comparison of DriverMatch treats as a tie.
Tied(passenger, a, b) == Abs(Dist(passenger, a) - Dist(passenger, b)) < TieWindow

\* The tie of distances is transitive on the set of drivers.
TieTransitive(passenger, ids) ==
  \A a, b, c \in ids :
    Tied(passenger, a, b) /\ Tied(passenger, b, c) => Tied(passenger, a, c)

\* The results of findDriversWithPrefix(geohash) on the trie, one for every
\* order of traversal.
QueryByPrefix(trie, geohash) ==
  {Range(FindDriversWithPrefix(trie, geohash, order)) :
     order \in LeafOrders(trie, {geohash})}

(***************************************************************************)
(* C1.  Every registered provider id is held by exactly one node of the    *)
(* trie, the node spelled by the geohash of the provider's current         *)
(* location, and the recorded geohash of the provider is that geohash.     *)
(***************************************************************************)
C1_ProviderInOneNode ==
  \A id \in DOMAIN drivers :
    LET geohash == Encode(drivers[id].location.lat, drivers[id].location.lng,
                          GEOHASH_PRECISION)
    IN /\ NodesHolding(locationTrie, id) = {geohash}
       /\ id \in DOMAIN driverGeohashes
       /\ driverGeohashes[id] = geohash

\* Two providers are registered and one of them has left a cell, whose node
\* is still in the trie.
C1_Witness ==
  /\ Cardinality(DOMAIN drivers) = 2
  /\ \E p \in DOMAIN locationTrie :
       /\ Len(p) = GEOHASH_PRECISION
       /\ \A id \in DOMAIN drivers : driverGeohashes[id] # p /\ id \notin Range(locationTrie[p])


(***************************************************************************)
(* C2.  Every call that reports a match names a provider that was          *)
(* available before the call and is unavailable after it, and a provider   *)
(* goes from unavailable to available only by setDriverAvailability(id,    *)
(* true): no provider is assigned twice without that call in between.      *)
(***************************************************************************)
C2_MatchTakesAvailable ==
  [][/\ outcome'.result = "Matched" =>
          /\ outcome'.driverId \in DOMAIN drivers
          /\ drivers[outcome'.driverId].available
          /\ ~drivers'[outcome'.driverId].available
     /\ \A d \in DOMAIN drivers :
          ~drivers[d].available /\ drivers'[d].available =>
            SetProviderAvailability(d, TRUE)]_vars

\* A match chose the provider at CoordC although an unavailable provider sits
\* at the passenger's own coordinate.
C2_Witness ==
  /\ outcome.result = "Matched"
  /\ drivers[outcome.driverId].location = CoordC
  /\ ~drivers[outcome.driverId].available
  /\ \E o \in DOMAIN drivers \ {outcome.driverId} :
       drivers[o].location = CoordA /\ ~drivers[o].available

(***************************************************************************)
(* C3, as stated.  For a pending request and two available providers, P1   *)
(* at distance 0 and P2 at any distance above 0, matchRideRequest selects  *)
(* P1, leaves P2 available and removes the request.                        *)
(***************************************************************************)
C3_AsStated ==
  [][\A r \in DOMAIN pendingRequests : \A p1, p2 \in DOMAIN drivers :
       (/\ drivers[p1].available /\ drivers[p2].available
        /\ Dist(pendingRequests[r], p1) = 0
        /\ Dist(pendingRequests[r], p2) > 0
        /\ AttemptMatch(r))
       => /\ outcome' = [result |-> "Matched", driverId |-> p1]
          /\ ~drivers'[p1].available
          /\ drivers'[p2].available
          /\ r \notin DOMAIN pendingRequests']_vars

(***************************************************************************)
(* C3, amended.  For a pending request and an available provider P1 at     *)
(* distance 0, if every other available provider the search finds is at    *)
(* 0.001 km or more, matchRideRequest selects P1: P1 becomes unavailable,  *)
(* every other provider is left as it was, the request is removed.         *)
(***************************************************************************)
C3_ZeroDistanceWins ==
  [][\A r \in DOMAIN pendingRequests : \A p1 \in DOMAIN drivers :
       (/\ drivers[p1].available
        /\ Dist(pendingRequests[r], p1) = 0
        /\ \A p2 \in Eligible(pendingRequests[r]) \ {p1} :
             Dist(pendingRequests[r], p2) >= TieWindow
        /\ AttemptMatch(r))
       => /\ outcome' = [result |-> "Matched", driverId |-> p1]
          /\ ~drivers'[p1].available
          /\ \A p2 \in DOMAIN drivers \ {p1} : drivers'[p2] = drivers[p2]
          /\ r \notin DOMAIN pendingRequests']_vars

\* matchRideRequest chose the provider at the passenger's coordinate, which
\* was active later than the available provider 1.49 m away.
C3_Witness ==
  /\ outcome.result = "Matched"
  /\ LastIssuedPending
  /\ drivers[outcome.driverId].location = CoordA
  /\ \E p2 \in DOMAIN drivers :
       /\ drivers[p2].available
       /\ drivers[p2].location = CoordC
       /\ drivers[p2].lastActive < drivers[outcome.driverId].lastActive

(***************************************************************************)
(* C4.  When the eligible candidates of a pending request are two          *)
(* providers whose distances differ by less than 0.001 km, matchRideRequest*)
(* selects the one with the earlier lastActive, whichever is nearer and    *)
(* in whatever order the queries return them.                              *)
(***************************************************************************)
C4_TieGoesToEarlier ==
  [][\A r \in DOMAIN pendingRequests : \A p1, p2 \in DOMAIN drivers :
       (/\ p1 # p2
        /\ drivers[p1].lastActive < drivers[p2].lastActive
        /\ Tied(pendingRequests[r], p1, p2)
        /\ Eligible(pendingRequests[r]) = {p1, p2}
        /\ AttemptMatch(r))
       => outcome' = [result |-> "Matched", driverId |-> p1]]_vars

\* matchRideRequest chose the provider 0.89 m away, active earlier than the
\* available provider at the passenger's coordinate.
C4_Witness ==
  /\ outcome.result = "Matched"
  /\ LastIssuedPending
  /\ drivers[outcome.driverId].location = CoordB
  /\ \E p2 \in DOMAIN drivers :
       /\ drivers[p2].available
       /\ drivers[p2].location = CoordA
       /\ drivers[p2].lastActive > drivers[outcome.driverId].lastActive


C6_NoCandidateNoEffect ==
  [][\A r \in DOMAIN pendingRequests :
       Eligible(pendingRequests[r]) = {} /\ AttemptMatch(r) =>
         /\ outcome' = [result |-> "NoAvailableMatch", driverId |-> 0]
         /\ UNCHANGED system]_vars

\* matchRideRequest found nobody for a request stored earlier, while an
\* available provider sits outside the searched prefix and an unavailable one
\* inside it.
C6_Witness ==
  /\ outcome.result = "NoAvailableMatch"
  /\ pendingRequests # EmptyMap
  /\ PendingAreOlder
  /\ \E o \in DOMAIN drivers : drivers[o].available /\ drivers[o].location = CoordE
  /\ \E o \in DOMAIN drivers : ~drivers[o].available /\ drivers[o].location = CoordA

(***************************************************************************)
(* C7.  A request id leaves the pending set only by a match of that id or  *)
(* by processExpiredRequests; an id that was issued and is not pending     *)
(* never becomes pending again, and matchRideRequest on it reports         *)
(* NotFound; a request that stays pending is never altered.                *)
(***************************************************************************)
C7_PendingExitsAreTerminal ==
  [][/\ \A r \in DOMAIN pendingRequests :
          IF r \in DOMAIN pendingRequests'
            THEN pendingRequests'[r] = pendingRequests[r]
            ELSE \/ MatchedBy(r) /\ outcome'.driverId \in DOMAIN drivers
                 \/ SweepExpired /\ IsExpired(pendingRequests[r], now)
     /\ \A r \in PassengerIds :
          r < nextPassengerId /\ r \notin DOMAIN pendingRequests =>
            /\ r \notin DOMAIN pendingRequests'
            /\ AttemptMatch(r) =>
                 outcome' = [result |-> "NotFound", driverId |-> 0]]_vars

\* Every provider id is registered, so the NotFound is the report of
\* matchRideRequest on request 1, which a match removed earlier; request 2 is
\* still pending.
C7_Witness ==
  /\ outcome.result = "NotFound"
  /\ DOMAIN drivers = DriverIds
  /\ DOMAIN pendingRequests = {2}
  /\ \E d \in DOMAIN drivers : ~drivers[d].available
  /\ now = 0

(***************************************************************************)
(* C8, as stated.  After processExpiredRequests, every request older than  *)
(* 300 s, by however little, is removed, and every request younger than    *)
(* 300 s is still pending and unchanged.                                   *)
(***************************************************************************)
C8_AsStated ==
  [][SweepExpired =>
       \A r \in DOMAIN pendingRequests :
         /\ now - pendingRequests[r].requestTime > REQUEST_TIMEOUT * TicksPerSecond
              => r \notin DOMAIN pendingRequests'
         /\ now - pendingRequests[r].requestTime < REQUEST_TIMEOUT * TicksPerSecond
              => /\ r \in DOMAIN pendingRequests'
                 /\ pendingRequests'[r] = pendingRequests[r]]_vars

(***************************************************************************)
(* C9, as stated.  After updateDriverLocation(id, coord) with any new      *)
(* coordinate, findDriversWithPrefix on the old geohash does not yield id  *)
(* and findDriversWithPrefix on the geohash of coord does.                 *)
(***************************************************************************)
C9_AsStated ==
  [][\A id \in DOMAIN drivers : \A coord \in DriverCoords \ {drivers[id].location} :
       RelocateProvider(id, coord) =>
         /\ \A ids \in QueryByPrefix(locationTrie', driverGeohashes[id]) : id \notin ids
         /\ \A ids \in QueryByPrefix(locationTrie', DefaultGeohash[coord]) :
              id \in ids]_vars

(***************************************************************************)
(* C9, amended.  After updateDriverLocation(id, coord),                    *)
(* findDriversWithPrefix on the geohash of coord yields id, and            *)
(* findDriversWithPrefix on the old geohash does not yield id when the     *)
(* geohash of coord differs from the old one.                              *)
(***************************************************************************)
C9_RelocationMovesIndexEntry ==
  [][\A id \in DOMAIN drivers : \A coord \in DriverCoords :
       RelocateProvider(id, coord) =>
         LET old == driverGeohashes[id]
             new == DefaultGeohash[coord]
         IN /\ old # new =>
                 \A ids \in QueryByPrefix(locationTrie', old) : id \notin ids
            /\ \A ids \in QueryByPrefix(locationTrie', new) : id \in ids]_vars

\* The only provider has been moved to another cell: the node of the cell it
\* left is in the trie and holds nobody.
C9_Witness ==
  /\ nextDriverId = 2
  /\ 1 \in Range(locationTrie[driverGeohashes[1]])
  /\ \E p \in DOMAIN locationTrie :
       /\ Len(p) = GEOHASH_PRECISION
       /\ p # driverGeohashes[1]
       /\ locationTrie[p] = <<>>

(***************************************************************************)
(* C10.  updateDriverLocation and setDriverAvailability on an unregistered *)
(* id, and matchRideRequest on an id that is not pending, report NotFound  *)
(* and change no provider, recorded geohash, trie node, pending request or *)
(* id counter.                                                             *)
(***************************************************************************)
C10_NotFoundIsNoOp ==
  [][/\ \A id \in DriverIds \ DOMAIN drivers :
          (\/ \E coord \in DriverCoords : RelocateProvider(id, coord)
           \/ \E available \in BOOLEAN : SetProviderAvailability(id, available))
          => outcome'.result = "NotFound" /\ UNCHANGED system
     /\ \A r \in PassengerIds \ DOMAIN pendingRequests :
          AttemptMatch(r) => outcome'.result = "NotFound" /\ UNCHANGED system]_vars

\* Every request id is pending, so the NotFound is the report of a provider
\* operation on the unregistered id 2.
C10_Witness ==
  /\ outcome.result = "NotFound"
  /\ DOMAIN pendingRequests = PassengerIds
  /\ DOMAIN drivers = {1}


(***************************************************************************)
(* C11.  A provider becomes available only by setDriverAvailability(id,    *)
(* true), and becomes unavailable only by setDriverAvailability(id, false) *)
(* or as the provider a match reports; a step that changes the             *)
(* availability of an existing provider is not an addDriver, an            *)
(* updateDriverLocation, a processExpiredRequests or a call of             *)
(* matchRideRequest or requestRide that reports no match.                  *)
(***************************************************************************)
C11_AvailabilityTransitions ==
  [][\A d \in DOMAIN drivers :
       /\ ~drivers[d].available /\ drivers'[d].available =>
            SetProviderAvailability(d, TRUE)
       /\ drivers[d].available /\ ~drivers'[d].available =>
            \/ SetProviderAvailability(d, FALSE)
            \/ /\ outcome' = [result |-> "Matched", driverId |-> d]
               /\ \/ \E r \in DOMAIN pendingRequests : AttemptMatch(r)
                  \/ \E coord \in PassengerCoords : SubmitRequest(coord)
       /\ drivers'[d].available # drivers[d].available =>
            ~ \/ \E coord \in DriverCoords : RegisterProvider(coord)
              \/ \E id \in DriverIds, coord \in DriverCoords : RelocateProvider(id, coord)
              \/ SweepExpired
              \/ /\ outcome'.result # "Matched"
                 /\ \/ \E r \in PassengerIds : AttemptMatch(r)
                    \/ \E coord \in PassengerCoords : SubmitRequest(coord)]_vars

\* matchRideRequest took the provider at the passenger's coordinate and left
\* the provider 0.89 m away available; a third kind of provider, made
\* unavailable before, is absent, so the only unavailable one is the match's.
C11_Witness ==
  /\ outcome.result = "Matched"
  /\ LastIssuedPending
  /\ drivers[outcome.driverId].location = CoordA
  /\ \A d \in DOMAIN drivers : drivers[d].available <=> d # outcome.driverId
  /\ \E o \in DOMAIN drivers : drivers[o].location = CoordB /\ drivers[o].lastActive < now

(***************************************************************************)
(* C12, as stated.  setDriverAvailability(id, true) on a provider that is  *)
(* already available, and setDriverAvailability(id, false) on any          *)
(* provider, leave the provider's lastActive unchanged.                    *)
(***************************************************************************)
C12_AsStated ==
  [][\A d \in DOMAIN drivers :
       \/ drivers[d].available /\ SetProviderAvailability(d, TRUE)
       \/ SetProviderAvailability(d, FALSE)
       => drivers'[d].lastActive = drivers[d].lastActive]_vars


(***************************************************************************)
(* C13.  For every latitude in [-90, 90], longitude in [-180, 180] and     *)
(* precision p >= 1, encode returns a string of exactly p characters, each *)
(* one of "0123456789bcdefghjkmnpqrstuvwxyz".                              *)
(***************************************************************************)
C13_EncodeLengthAndAlphabet ==
  [][CallEncode =>
       /\ Len(geohashCall'.geohash) = geohashCall.precision
       /\ \A i \in 1..Len(geohashCall'.geohash) :
            geohashCall'.geohash[i] \in
              {"0", "1", "2", "3", "4", "5", "6", "7", "8", "9", "b", "c", "d", "e",
               "f", "g", "h", "j", "k", "m", "n", "p", "q", "r", "s", "t", "u", "v",
               "w", "x", "y", "z"}]_vars

\* encode has run on the corner (90, 180) at the default precision.
C13_Witness ==
  /\ geohashCall.latitude = GridSize
  /\ geohashCall.longitude = GridSize
  /\ geohashCall.precision = GEOHASH_PRECISION
  /\ geohashCall.geohash = <<"z", "z", "z", "z", "z", "z">>

(***************************************************************************)
(* C14.  encode of latitude 0, longitude 0 at precision 1 returns "s".     *)
(***************************************************************************)
C14_EncodeOriginIsS ==
  [][/\ CallEncode
     /\ geohashCall.latitude = GridSize \div 2
     /\ geohashCall.longitude = GridSize \div 2
     /\ geohashCall.precision = 1
     => geohashCall'.geohash = <<"s">>]_vars

\* encode has run on (0, 0) at precision 1.
C14_Witness ==
  /\ geohashCall.latitude = GridSize \div 2
  /\ geohashCall.longitude = GridSize \div 2
  /\ geohashCall.precision = 1
  /\ Len(geohashCall.geohash) = 1

(***************************************************************************)
(* C15.  For every valid coordinate c, decode(encode(c, 6)) is a pair      *)
(* {latitude, longitude} inside the precision-6 cell of c: encoding it at  *)
(* precision 6 gives encode(c, 6) again.                                   *)
(***************************************************************************)
C15_DecodeStaysInCell ==
  [][/\ CallDecode
     /\ geohashCall.precision = GEOHASH_PRECISION
     /\ Len(geohashCall.geohash) = GEOHASH_PRECISION
     => Encode(geohashCall'.decoded[1].lat, geohashCall'.decoded[1].lng,
               GEOHASH_PRECISION) = geohashCall.geohash]_vars

\* decode has run on the precision-6 geohash of a coordinate that is not the
\* centre of its cell, and on no axis at the same index as on the other.
C15_Witness ==
  /\ geohashCall.precision = GEOHASH_PRECISION
  /\ geohashCall.latitude = BoundaryLat + 5
  /\ geohashCall.longitude = 2^24 + 12345
  /\ Len(geohashCall.geohash) = GEOHASH_PRECISION
  /\ Len(geohashCall.decoded) = 1
  /\ geohashCall.decoded[1].lat # geohashCall.latitude
  /\ Encode(geohashCall.decoded[1].lat, geohashCall.decoded[1].lng,
            GEOHASH_PRECISION) = geohashCall.geohash

(***************************************************************************)
(* C16, as stated.  For a geohash g of any length, 0 and 1 included,       *)
(* getNeighbors(g) returns exactly the 32 strings prefix + symbol, where   *)
(* prefix is g without its last character when g is longer than 1 and g    *)
(* itself otherwise.                                                       *)
(***************************************************************************)
C16_AsStated ==
  [][CallGetNeighbors =>
       LET g == geohashCall.geohash
           prefix == IF Len(g) > 1 THEN SubSeq(g, 1, Len(g) - 1) ELSE g
       IN /\ Len(geohashCall'.neighbors) = 32
          /\ Range(geohashCall'.neighbors) =
               {Append(prefix, BASE32[i]) : i \in 1..Len(BASE32)}]_vars


(***************************************************************************)
(* C17.  insertDriver is idempotent: on every trie, for every geohash g    *)
(* and id, a second insertDriver(g, id) leaves the trie the first one      *)
(* made, nodes and driverIds alike, with id once in the node of g.         *)
(***************************************************************************)
C17_InsertIdempotent ==
  \A geohash \in TrieKeys : \A driverId \in DriverIds :
    LET once == InsertDriver(locationTrie, geohash, driverId)
    IN /\ InsertDriver(once, geohash, driverId) = once
       /\ Cardinality({k \in 1..Len(once[geohash]) : once[geohash][k] = driverId}) = 1

\* Id 1 was inserted at "s0" after id 2, and again after that: the node holds
\* both once, and other nodes hold ids too.
C17_Witness ==
  /\ <<"s", "0">> \in DOMAIN locationTrie
  /\ locationTrie[<<"s", "0">>] = <<2, 1>>
  /\ locationTrie[<<"s">>] = <<1>>
  /\ <<"t">> \in DOMAIN locationTrie

(***************************************************************************)
(* C18, as stated.  After any sequence of insertDriver and removeDriver,   *)
(* findDriversWithPrefix(p) returns exactly the ids stored at a node whose *)
(* path starts with p, each id once, and nothing when no node is at p.     *)
(***************************************************************************)
C18_AsStated ==
  \A p \in TriePrefixes : \A order \in LeafOrders(locationTrie, {p}) :
    LET result == FindDriversWithPrefix(locationTrie, p, order)
    IN /\ Range(result) =
            {id \in DriverIds :
               \E g \in DOMAIN locationTrie :
                 StartsWith(g, p) /\ id \in Range(locationTrie[g])}
       /\ Cardinality(Range(result)) = Len(result)
       /\ p \notin DOMAIN locationTrie => result = <<>>

(***************************************************************************)
(* C19, as stated.  Whatever the number of candidates and the order of the *)
(* pushes, the driver matchRideRequest selects is a best one: no other     *)
(* candidate is nearer by 0.001 km or more, and no other candidate within  *)
(* 0.001 km of the selected one has an earlier lastActive.                 *)
(***************************************************************************)
C19_AsStated ==
  [][\A r \in PassengerIds :
       MatchedBy(r) =>
         LET passenger == pendingRequests[r]
             selected == outcome'.driverId
         IN \A other \in Eligible(passenger) \ {selected} :
              /\ Dist(passenger, other) + TieWindow > Dist(passenger, selected)
              /\ ~ (/\ Tied(passenger, other, selected)
                    /\ drivers[other].lastActive < drivers[selected].lastActive)]_vars

(***************************************************************************)
(* C20, as stated.  The priority queue a call of matchRideRequest builds   *)
(* for a pending request holds each driver id at most once.                *)
(***************************************************************************)
C20_AsStated ==
  [][\A r \in DOMAIN pendingRequests :
       AttemptMatch(r) =>
         \A found \in MatchQueries(r, pendingRequests) :
           LET driverHeap == DriverHeap(pendingRequests[r], drivers, found)
           IN \A i, j \in DOMAIN driverHeap :
                driverHeap[i].driverId = driverHeap[j].driverId => i = j]_vars

(***************************************************************************)
(* C21.  With geohashes of 6 characters, the drivers a call of             *)
(* matchRideRequest pushes on its heap are exactly the available drivers   *)
(* whose recorded geohash has the first 3 characters of the request's      *)
(* geohash: the 33 cells give one prefix, a driver under another prefix is *)
(* never selected, and a driver under it is always pushed.                 *)
(***************************************************************************)
C21_SearchIsThePrefixCell ==
  [][\A r \in DOMAIN pendingRequests :
       LET passenger == pendingRequests[r]
           prefix == SubSeq(Encode(passenger.location.lat, passenger.location.lng, 6), 1, 3)
           inPrefix == {id \in DOMAIN drivers :
                          /\ drivers[id].available
                          /\ SubSeq(driverGeohashes[id], 1, 3) = prefix}
       IN outcome'.result # "ok" /\ nextPassengerId' = nextPassengerId /\ AttemptMatch(r) =>
            /\ QueryPrefixes(passenger) = {prefix}
            /\ \A found \in MatchQueries(r, pendingRequests) :
                 LET driverHeap == DriverHeap(passenger, drivers, found)
                 IN {driverHeap[i].driverId : i \in DOMAIN driverHeap} = inPrefix
            /\ outcome'.result = "Matched" => outcome'.driverId \in inPrefix]_vars

\* A match took the driver at CoordB, three steps from the passenger inside
\* its prefix, while an available driver stays at CoordE, one step from the
\* passenger under another prefix.
C21_Witness ==
  /\ outcome.result = "Matched"
  /\ drivers[outcome.driverId].location = CoordB
  /\ \E o \in DOMAIN drivers :
       /\ drivers[o].available
       /\ drivers[o].location = CoordE
       /\ SubSeq(driverGeohashes[o], 1, 3) # SubSeq(driverGeohashes[outcome.driverId], 1, 3)

(***************************************************************************)
(* C22.  requestRide takes an id that is not in use and runs the match     *)
(* before it returns.  On return the new request is pending exactly when   *)
(* no available driver was under its searched prefixes at the call;        *)
(* otherwise one driver, and only one, went from available to unavailable  *)
(* and the new id is not pending.  Either way every request that was       *)
(* pending is still pending and unchanged.                                 *)
(***************************************************************************)
C22_SubmitMatchesAtOnce ==
  [][\A coord \in PassengerCoords :
       nextPassengerId' # nextPassengerId /\ SubmitRequest(coord) =>
         LET id == nextPassengerId
             eligible == Eligible([location |-> coord, requestTime |-> now])
             taken == {d \in DOMAIN drivers : drivers[d].available /\ ~drivers'[d].available}
         IN /\ id \notin DOMAIN pendingRequests
            /\ nextPassengerId' = id + 1
            /\ id \in DOMAIN pendingRequests' <=> eligible = {}
            /\ eligible = {} => drivers' = drivers
            /\ eligible # {} =>
                 /\ Cardinality(taken) = 1
                 /\ taken \subseteq eligible
                 /\ \A d \in DOMAIN drivers \ taken : drivers'[d] = drivers[d]
            /\ DOMAIN drivers' = DOMAIN drivers
            /\ \A r \in DOMAIN pendingRequests :
                 r \in DOMAIN pendingRequests' /\ pendingRequests'[r] = pendingRequests[r]]_vars

\* The second request was matched while the first, submitted when there was
\* no driver, is still pending as it was stored.
C22_Witness ==
  /\ nextPassengerId = 3
  /\ outcome.result = "Matched"
  /\ DOMAIN pendingRequests = {1}
  /\ pendingRequests[1] = [location |-> CoordA, requestTime |-> 0]
  /\ \E d \in DOMAIN drivers :
       d = outcome.driverId /\ ~drivers[d].available /\ drivers[d].lastActive = 1
  /\ now = 1

(***************************************************************************)
(* C23.  A call of matchRideRequest that matches changes the available     *)
(* flag of the selected driver and removes the matched request, and        *)
(* nothing else: the selected driver's location, lastActive, recorded      *)
(* geohash and trie entry, every other driver's record, the trie and every *)
(* other pending request stay as they were.                                *)
(***************************************************************************)
C23_MatchFrame ==
  [][\A r \in DOMAIN pendingRequests :
       MatchedBy(r) =>
         LET selected == outcome'.driverId
         IN /\ drivers' = [drivers EXCEPT ![selected].available = FALSE]
            /\ drivers'[selected].location = drivers[selected].location
            /\ drivers'[selected].lastActive = drivers[selected].lastActive
            /\ driverGeohashes' = driverGeohashes
            /\ locationTrie' = locationTrie
            /\ NodesHolding(locationTrie', selected) = {driverGeohashes[selected]}
            /\ pendingRequests' = [q \in DOMAIN pendingRequests \ {r} |-> pendingRequests[q]]
            /\ <<nextDriverId, nextPassengerId>>' = <<nextDriverId, nextPassengerId>>]_vars

\* matchRideRequest(1) matched after the driver's last activity, with another
\* driver known; the request issued after it is still pending, so the match
\* is not the one of a requestRide.
C23_Witness ==
  /\ outcome.result = "Matched"
  /\ drivers[outcome.driverId].lastActive < now
  /\ ~drivers[outcome.driverId].available
  /\ DOMAIN drivers # {outcome.driverId}
  /\ DOMAIN pendingRequests = {2}

(***************************************************************************)
(* C24.  While the clock keeps advancing and processExpiredRequests keeps  *)
(* being called, every request that is pending leaves pendingRequests at   *)
(* some later time, by a match or by expiry, whether or not a driver is    *)
(* ever available.                                                         *)
(***************************************************************************)
C24_EveryRequestLeaves ==
  \A r \in PassengerIds :
    (r \in DOMAIN pendingRequests) ~> (r \notin DOMAIN pendingRequests)

\* Both requests were issued and have left although no driver was ever
\* registered: the sweep removed them.
C24_Witness ==
  /\ nextPassengerId = MaxRequests + 1
  /\ pendingRequests = EmptyMap
  /\ nextDriverId = 1
  /\ drivers = EmptyMap

=============================================================================
